---- MODULE Spec2Model ----
(***************************************************************************)
(* Model of .pre-commit-hooks/check_file_header.py: the pre-commit hook    *)
(* that checks and auto-fixes the "// <path>" header of source files.      *)
(*                                                                         *)
(* Text is a sequence of tokens.  "/", "\\", " ", "\n", "\r" and "x" are   *)
(* single characters; "bot", "src", "hub", ".git" and "node_modules" stand *)
(* for the characters they spell.  No token is a prefix of another and the *)
(* characters "." and "n" occur in ".git" and "node_modules" only, so two  *)
(* token sequences are equal exactly when the strings are, and a string    *)
(* contains ".git" (or "node_modules") exactly when that token occurs.     *)
(*                                                                         *)
(* A file on disk is the sequence of its characters, line terminators      *)
(* included.  Console output is not modelled.                              *)
(***************************************************************************)
EXTENDS Integers, Sequences, FiniteSets, TLC

\* ------------------------------------------------------------ bounds
\* longest argument list handed to main
MaxArgs == 2
\* most lines of a file before the hook runs
MaxLines == 2

\* ------------------------------------------------------------ strings
\* what str.rstrip() removes, among the characters of the model
Whitespace == {" ", "\n", "\r"}

RECURSIVE rstrip(_)
\* str.rstrip(): the string without its trailing whitespace
rstrip(s) ==
    IF s = <<>> THEN s
    ELSE IF s[Len(s)] \in Whitespace THEN rstrip(SubSeq(s, 1, Len(s) - 1))
    ELSE s

\* str.startswith(prefix)
startswith(s, prefix) ==
    /\ Len(s) >= Len(prefix)
    /\ SubSeq(s, 1, Len(prefix)) = prefix

\* str.replace(old, new) for single characters
replace(s, old, new) == [i \in 1..Len(s) |-> IF s[i] = old THEN new ELSE s[i]]

\* `word in s` for a word that is one token of the model
contains(s, word) == \E i \in 1..Len(s) : s[i] = word

\* list.insert(index, item), index counted from 0 as in the source
insert(lines, index, item) ==
    SubSeq(lines, 1, index) \o <<item>> \o SubSeq(lines, index + 1, Len(lines))

\* ------------------------------------------------------------ file I/O
RECURSIVE universal_newlines(_)
\* open(..., 'r') with newline=None: "\r\n" and "\r" are read as "\n"
universal_newlines(bytes) ==
    IF bytes = <<>> THEN <<>>
    ELSE IF bytes[1] = "\r"
         THEN <<"\n">> \o universal_newlines(
                  IF Len(bytes) >= 2 /\ bytes[2] = "\n"
                  THEN SubSeq(bytes, 3, Len(bytes))
                  ELSE Tail(bytes))
         ELSE <<bytes[1]>> \o universal_newlines(Tail(bytes))

RECURSIVE split_lines(_, _)
\* the lines of a text, each with its "\n"; cur is the line being read
split_lines(text, cur) ==
    IF text = <<>> THEN (IF cur = <<>> THEN <<>> ELSE <<cur>>)
    ELSE IF text[1] = "\n"
         THEN <<Append(cur, "\n")>> \o split_lines(Tail(text), <<>>)
         ELSE split_lines(Tail(text), Append(cur, text[1]))

\* f.readlines() on a file opened in text mode
readlines(bytes) == split_lines(universal_newlines(bytes), <<>>)

RECURSIVE translate_newlines(_, _)
\* open(..., 'w') with newline=None: every "\n" is written as os.linesep
translate_newlines(text, linesep) ==
    IF text = <<>> THEN <<>>
    ELSE (IF text[1] = "\n" THEN linesep ELSE <<text[1]>>)
         \o translate_newlines(Tail(text), linesep)

RECURSIVE join(_)
\* the lines one after the other, as writelines emits them
join(lines) == IF lines = <<>> THEN <<>> ELSE lines[1] \o join(Tail(lines))

\* f.writelines(lines) on a file opened in text mode
writelines(lines, linesep) == translate_newlines(join(lines), linesep)

\* ------------------------------------------------------------ fix_file_header
\* expected_path and expected_comment
expected_comment(filepath) == <<"/", "/", " ">> \o replace(filepath, "\\", "/")

\* the header added to an empty file
empty_file_fix(filepath) ==
    [lines |-> <<Append(expected_comment(filepath), "\n"), <<"\n">>>>,
     needs_fix |-> TRUE]

\* first_line_fix with the header written without its "\n"
first_line_fix_unterminated(filepath, lines) ==
    LET first_line == rstrip(lines[1])
    IN  IF ~startswith(first_line, <<"/", "/">>)
        THEN [lines |-> insert(insert(lines, 0, Append(expected_comment(filepath), "\n")),
                               1, <<"\n">>),
              needs_fix |-> TRUE]
        ELSE IF first_line # expected_comment(filepath)
        THEN [lines |-> [lines EXCEPT ![1] = expected_comment(filepath)],
              needs_fix |-> TRUE]
        ELSE [lines |-> lines, needs_fix |-> FALSE]

\* the check of the first line of a non-empty file
first_line_fix(filepath, lines) ==
    LET first_line == rstrip(lines[1])
    IN  IF ~startswith(first_line, <<"/", "/">>)
        THEN [lines |-> insert(insert(lines, 0, Append(expected_comment(filepath), "\n")),
                               1, <<"\n">>),
              needs_fix |-> TRUE]
        ELSE IF first_line # expected_comment(filepath)
        THEN [lines |-> [lines EXCEPT ![1] = Append(expected_comment(filepath), "\n")],
              needs_fix |-> TRUE]
        ELSE [lines |-> lines, needs_fix |-> FALSE]

\* second_line_fix comparing the second line without trimming it
second_line_fix_untrimmed(lines, needs_fix) ==
    IF Len(lines) < 2
    THEN [lines |-> insert(lines, 1, <<"\n">>), needs_fix |-> TRUE]
    ELSE IF lines[2] # <<"\n">>
    THEN [lines |-> insert(lines, 1, <<"\n">>), needs_fix |-> TRUE]
    ELSE [lines |-> lines, needs_fix |-> needs_fix]

\* the check of the second line, after the first line was fixed if needed
second_line_fix(lines, needs_fix) ==
    IF Len(lines) < 2
    THEN [lines |-> insert(lines, 1, <<"\n">>), needs_fix |-> TRUE]
    ELSE IF rstrip(lines[2]) # <<>>
    THEN [lines |-> insert(lines, 1, <<"\n">>), needs_fix |-> TRUE]
    ELSE [lines |-> lines, needs_fix |-> needs_fix]

\* the lines to write and whether a fix was decided
check_lines(filepath, lines) ==
    IF Len(lines) = 0
    THEN empty_file_fix(filepath)
    ELSE LET first == first_line_fix(filepath, lines)
         IN  second_line_fix(first.lines, first.needs_fix)

\* what the file system lets one call do: everything, no read, no open for
\* writing, or an open for writing (which truncates) and then no write.
\* A result tells what the call returned (ret), what the file holds after it
\* (disk), the return statement reached (outcome), whether an exception left
\* the function (raised), and the lines and the needs_fix it ended with.
IOResults == {"ok", "read_error", "open_error", "write_error"}

\* on_read_error reporting the unreadable file as fixed
on_read_error_fails(filepath, bytes) ==
    [ret |-> FALSE, disk |-> bytes, outcome |-> "ReadError", raised |-> FALSE,
     needs_fix |-> FALSE, lines |-> <<>>, opened_w |-> FALSE]

\* on_read_error letting the exception out of fix_file_header
on_read_error_raises(filepath, bytes) ==
    [ret |-> TRUE, disk |-> bytes, outcome |-> "ReadError", raised |-> TRUE,
     needs_fix |-> FALSE, lines |-> <<>>, opened_w |-> FALSE]

\* reading failed: report, do not try to fix
on_read_error(filepath, bytes) ==
    [ret |-> TRUE, disk |-> bytes, outcome |-> "ReadError", raised |-> FALSE,
     needs_fix |-> FALSE, lines |-> <<>>, opened_w |-> FALSE]

\* on_write_error reporting the file as fixed
on_write_error_fixed(bytes, fixed, io) ==
    [ret |-> FALSE, disk |-> IF io = "open_error" THEN bytes ELSE <<>>,
     outcome |-> "WriteError", raised |-> FALSE,
     needs_fix |-> fixed.needs_fix, lines |-> fixed.lines, opened_w |-> TRUE]

\* writing failed: report
on_write_error(bytes, fixed, io) ==
    [ret |-> TRUE, disk |-> IF io = "open_error" THEN bytes ELSE <<>>,
     outcome |-> "WriteError", raised |-> FALSE,
     needs_fix |-> fixed.needs_fix, lines |-> fixed.lines, opened_w |-> TRUE]

\* the file was written
on_written(fixed, linesep) ==
    [ret |-> FALSE, disk |-> writelines(fixed.lines, linesep), outcome |-> "Fixed",
     raised |-> FALSE,
     needs_fix |-> fixed.needs_fix, lines |-> fixed.lines, opened_w |-> TRUE]

\* nothing to fix: the file is not opened again
on_valid(bytes, fixed) ==
    [ret |-> TRUE, disk |-> bytes, outcome |-> "Unchanged", raised |-> FALSE,
     needs_fix |-> fixed.needs_fix, lines |-> fixed.lines, opened_w |-> FALSE]

\* one call of fix_file_header on a file holding bytes, under io
fix_file_header(filepath, bytes, io, linesep) ==
    IF io = "read_error" THEN on_read_error(filepath, bytes)
    ELSE LET fixed == check_lines(filepath, readlines(bytes))
         IN  IF fixed.needs_fix
             THEN IF io = "ok" THEN on_written(fixed, linesep)
                  ELSE on_write_error(bytes, fixed, io)
             ELSE on_valid(bytes, fixed)

\* ------------------------------------------------------------ main
\* the paths main leaves alone
skip_path(filepath) ==
    contains(filepath, "node_modules") \/ contains(filepath, ".git")

\* ------------------------------------------------------------ inputs
Paths ==
    { <<"bot">>,
      <<"src", "\\", "bot">>,
      <<"bot", " ">>,
      <<".git", "/", "bot">>,
      <<".git", "hub", "/", "bot">>,
      <<"node_modules", "/", "bot">> }

Texts ==
    { <<"/", "/", " ", "bot">>,
      <<"/", "/", " ", "bot", " ">>,
      <<"/", "/", " ", "src", "/", "bot">>,
      <<"x">>,
      <<" ">>,
      <<>> }

Terminators == { <<"\n">>, <<"\r", "\n">> }

\* a line with its terminator
FullLines == {t \o e : t \in Texts, e \in Terminators}

\* a last line may lack its terminator
LastLines == FullLines \cup (Texts \ {<<>>})

RECURSIVE Prefixes(_)
\* the files of n terminated lines
Prefixes(n) ==
    IF n = 0 THEN {<<>>}
    ELSE {p \o l : p \in Prefixes(n - 1), l \in FullLines}

\* the files of at most MaxLines lines
Contents ==
    {<<>>} \cup UNION {{p \o l : p \in Prefixes(n - 1), l \in LastLines} : n \in 1..MaxLines}

\* an empty file, a file without header, a file with the header of "bot" and
\* a blank line, and one with the header alone
FewContents ==
    { <<>>,
      <<"x", "\r", "\n">>,
      <<"/", "/", " ", "bot", "\n", "\n", "x", "\n">>,
      <<"/", "/", " ", "bot", "\r", "\n", "x", "\r", "\n">> }

RECURSIVE ArgLists(_)
\* the argument lists of length n
ArgLists(n) ==
    IF n = 0 THEN {<<>>}
    ELSE {Append(a, p) : a \in ArgLists(n - 1), p \in Paths}

\* ------------------------------------------------------------ state
VARIABLES
    argv,        \* files_to_check: sys.argv[1:]
    idx,         \* position of the for loop in files_to_check, from 1
    all_valid,   \* main's all_valid
    pc,          \* "main" while main runs, "done" once it returned,
                 \* "aborted" once an exception ended it
    exit_code,   \* what main returned; -1 before
    fs,          \* the content of the file at each path
    os_linesep,  \* os.linesep of the platform
    trace        \* one record per path main has gone through

vars == <<argv, idx, all_valid, pc, exit_code, fs, os_linesep, trace>>

\* the hook runs over any paths; the files all hold one of a few contents
InitRun ==
    /\ argv \in UNION {ArgLists(n) : n \in 0..MaxArgs}
    /\ \E c \in FewContents : fs = [p \in Paths |-> c]

\* the hook runs twice over one file, of any content
InitRerun ==
    /\ \E p \in Paths : argv = <<p, p>>
    /\ \E c \in Contents : fs = [p \in Paths |-> c]

Init ==
    /\ InitRun \/ InitRerun
    /\ os_linesep \in {<<"\n">>, <<"\r", "\n">>}
    /\ idx = 1
    /\ all_valid = TRUE
    /\ pc = "main"
    /\ exit_code = -1
    /\ trace = <<>>

\* no file was given
NoFiles ==
    /\ pc = "main"
    /\ Len(argv) = 0
    /\ pc' = "done"
    /\ exit_code' = 0
    /\ UNCHANGED <<argv, idx, all_valid, fs, os_linesep, trace>>

\* the loop passes over a path it skips
SkipFile ==
    /\ pc = "main"
    /\ idx <= Len(argv)
    /\ skip_path(argv[idx])
    /\ idx' = idx + 1
    /\ trace' = Append(trace,
           [path |-> argv[idx], before |-> fs[argv[idx]], after |-> fs[argv[idx]],
            ret |-> TRUE, outcome |-> "Skipped", needs_fix |-> FALSE,
            lines |-> <<>>, opened_r |-> FALSE, opened_w |-> FALSE])
    /\ UNCHANGED <<argv, all_valid, pc, exit_code, fs, os_linesep>>

\* the loop calls fix_file_header on a path; an exception that leaves the
\* call is caught nowhere in main and ends the process
CheckFile ==
    /\ pc = "main"
    /\ idx <= Len(argv)
    /\ ~skip_path(argv[idx])
    /\ \E io \in IOResults :
         LET filepath == argv[idx]
             res == fix_file_header(filepath, fs[filepath], io, os_linesep)
         IN  /\ io \in {"open_error", "write_error"} => res.outcome = "WriteError"
             /\ IF res.raised
                THEN /\ pc' = "aborted"
                     /\ exit_code' = 1
                     /\ UNCHANGED <<idx, all_valid, fs, trace>>
                ELSE /\ fs' = [fs EXCEPT ![filepath] = res.disk]
                     /\ all_valid' = IF ~res.ret THEN FALSE ELSE all_valid
                     /\ trace' = Append(trace,
                            [path |-> filepath, before |-> fs[filepath],
                             after |-> res.disk, ret |-> res.ret,
                             outcome |-> res.outcome, needs_fix |-> res.needs_fix,
                             lines |-> res.lines, opened_r |-> TRUE,
                             opened_w |-> res.opened_w])
                     /\ idx' = idx + 1
                     /\ UNCHANGED <<pc, exit_code>>
    /\ UNCHANGED <<argv, os_linesep>>

\* the loop is over: main returns
Return ==
    /\ pc = "main"
    /\ Len(argv) > 0
    /\ idx > Len(argv)
    /\ pc' = "done"
    /\ exit_code' = IF ~all_valid THEN 1 ELSE 0
    /\ UNCHANGED <<argv, idx, all_valid, fs, os_linesep, trace>>

Next == NoFiles \/ SkipFile \/ CheckFile \/ Return

Spec == Init /\ [][Next]_vars

\* ------------------------------------------------------------ properties
\* the calls and skips main has made so far
Runs == {trace[i] : i \in DOMAIN trace}

\* the call ended without a read or write error
Completed(r) == r.outcome \in {"Unchanged", "Fixed"}

RECURSIVE FileLinesFrom(_, _)
\* the lines of a file on disk, each with the terminator the file holds
FileLinesFrom(bytes, cur) ==
    IF bytes = <<>> THEN (IF cur = <<>> THEN <<>> ELSE <<cur>>)
    ELSE IF bytes[1] = "\n" \/ (bytes[1] = "\r" /\ ~(Len(bytes) >= 2 /\ bytes[2] = "\n"))
         THEN <<Append(cur, bytes[1])>> \o FileLinesFrom(Tail(bytes), <<>>)
         ELSE FileLinesFrom(Tail(bytes), Append(cur, bytes[1]))

FileLines(bytes) == FileLinesFrom(bytes, <<>>)

\* the terminator of a line of a file: "\r\n", "\n", "\r" or none
LineEnd(line) ==
    IF Len(line) >= 2 /\ SubSeq(line, Len(line) - 1, Len(line)) = <<"\r", "\n">>
    THEN <<"\r", "\n">>
    ELSE IF Len(line) >= 1 /\ line[Len(line)] \in {"\n", "\r"}
    THEN <<line[Len(line)]>>
    ELSE <<>>

\* a line of a file without its terminator
LineText(line) == SubSeq(line, 1, Len(line) - Len(LineEnd(line)))

\* the file has a first line that is a comment other than the expected header
WrongHeader(path, bytes) ==
    LET ls == readlines(bytes)
    IN  /\ Len(ls) >= 1
        /\ startswith(rstrip(ls[1]), <<"/", "/">>)
        /\ rstrip(ls[1]) # expected_comment(path)

\* the file has a first line that is no comment
NoHeader(path, bytes) ==
    LET ls == readlines(bytes)
    IN  /\ Len(ls) >= 1
        /\ ~startswith(rstrip(ls[1]), <<"/", "/">>)

\* the file has a second line, blank once trimmed
BlankSecondLine(bytes) ==
    LET ls == readlines(bytes)
    IN  Len(ls) >= 2 /\ rstrip(ls[2]) = <<>>

\* the file has the expected header, and a second line that is not blank
HeaderNoBlank(path, bytes) ==
    LET ls == readlines(bytes)
    IN  /\ Len(ls) >= 2
        /\ rstrip(ls[1]) = expected_comment(path)
        /\ rstrip(ls[2]) # <<>>

\* the file has the expected header and a blank second line
ValidFile(path, bytes) ==
    LET ls == readlines(bytes)
    IN  /\ Len(ls) >= 2
        /\ rstrip(ls[1]) = expected_comment(path)
        /\ rstrip(ls[2]) = <<>>

\* the path has a directory of this name: a whole segment, followed by a separator
HasDirectory(path, name) ==
    \E i \in 1..Len(path) :
        /\ path[i] = name
        /\ i = 1 \/ path[i - 1] \in {"/", "\\"}
        /\ i < Len(path) /\ path[i + 1] \in {"/", "\\"}

\* C1: once main has returned, the exit code is 1 exactly when some call of
\* fix_file_header ended Fixed (its rewrite was carried out), and 0 otherwise.
C1_ExitCode ==
    pc = "done" =>
        /\ exit_code \in {0, 1}
        /\ exit_code = 1 <=>
               \E r \in Runs : r.outcome = "Fixed" /\ r.after = writelines(r.lines, os_linesep)

\* main returned 1 after one file was fixed and another could not be written
C1_Witness ==
    /\ pc = "done"
    /\ exit_code = 1
    /\ \E r \in Runs : r.outcome = "Fixed"
    /\ \E r \in Runs : r.outcome \in {"WriteError", "ReadError"}

\* C2: after a call that ended without a read or write error, the file has at
\* least two lines, line 1 is exactly "// " and the path with forward slashes,
\* and line 2 is exactly empty.
C2_HeaderOnDisk ==
    \A r \in Runs :
        Completed(r) =>
            LET fl == FileLines(r.after)
            IN  /\ Len(fl) >= 2
                /\ LineText(fl[1]) = <<"/", "/", " ">> \o replace(r.path, "\\", "/")
                /\ LineText(fl[2]) = <<>>

C4_HeaderPrepended ==
    \A r \in Runs :
        (r.outcome \in {"Unchanged", "Fixed"} /\ NoHeader(r.path, r.before)) =>
            LET old == FileLines(r.before)
                new == FileLines(r.after)
            IN  /\ r.outcome = "Fixed"
                /\ Len(new) = Len(old) + 2
                /\ LineText(new[1]) = expected_comment(r.path)
                /\ LineText(new[2]) = <<>>
                /\ \A i \in 1..Len(old) : new[i + 2] = old[i]

\* C5: main skips a path exactly when the path has a directory named
\* node_modules or .git.
C5_SkipsExcludedDirectoriesOnly ==
    \A r \in Runs :
        (r.outcome = "Skipped") <=>
            (HasDirectory(r.path, "node_modules") \/ HasDirectory(r.path, ".git"))

\* C6: a file with the expected header and a blank second line is left as it
\* is, on every run: it is not opened for writing, its content is the same, the
\* outcome is Unchanged; and a file is opened for writing, or changed, only
\* when a fix was decided.
C6_ValidFileUntouched ==
    \A r \in Runs :
        /\ (r.opened_r /\ r.outcome # "ReadError" /\ ValidFile(r.path, r.before)) =>
               /\ r.outcome = "Unchanged"
               /\ r.ret = TRUE
               /\ ~r.opened_w
               /\ r.after = r.before
        /\ r.opened_w => r.needs_fix
        /\ r.after # r.before => r.needs_fix

\* a valid file went through two runs
C6_Witness ==
    \E i \in DOMAIN trace : \E j \in DOMAIN trace :
        /\ i < j
        /\ trace[i].path = trace[j].path
        /\ ValidFile(trace[i].path, trace[i].before)
        /\ trace[i].outcome = "Unchanged"
        /\ trace[j].outcome = "Unchanged"
        /\ trace[j].after = trace[i].before

\* C7: a file with the expected header and a second line that is not blank
\* gets one blank line at position 1: the result is its line 1, a blank line,
\* then its lines from line 2 on as they were; the outcome is Fixed.
C7_BlankLineInserted ==
    \A r \in Runs :
        (Completed(r) /\ HeaderNoBlank(r.path, r.before)) =>
            LET old == FileLines(r.before)
                new == FileLines(r.after)
            IN  /\ r.outcome = "Fixed"
                /\ Len(new) = Len(old) + 1
                /\ new[1] = old[1]
                /\ LineText(new[2]) = <<>>
                /\ \A i \in 2..Len(old) : new[i + 1] = old[i]

\* C8: a read or write failure never aborts the run: every path of the
\* argument list is gone through in order, the ones not skipped by a call of
\* fix_file_header that returns, a file that could not be read is left as it
\* was, and main is in its loop, one path further each step, until it returns
\* an exit code.
C8_ErrorsNeverAbort ==
    /\ Len(trace) = idx - 1
    /\ idx <= Len(argv) + 1
    /\ \A i \in DOMAIN trace :
           /\ trace[i].path = argv[i]
           /\ trace[i].outcome = "Skipped" <=> skip_path(argv[i])
           /\ trace[i].outcome = "ReadError" => trace[i].after = trace[i].before
    /\ pc \in {"main", "done"}
    /\ pc = "main" => exit_code = -1
    /\ pc = "done" => exit_code \in {0, 1} /\ Len(trace) = Len(argv)

\* main returned after a file failed and a later one was fixed
C8_Witness ==
    /\ pc = "done"
    /\ \E i \in DOMAIN trace : \E j \in DOMAIN trace :
           /\ i < j
           /\ trace[i].outcome \in {"ReadError", "WriteError"}
           /\ trace[j].outcome = "Fixed"

\* C9 as stated: when the rewrite fails, fix_file_header returns False, the
\* value that tells main the file was fixed.
C9_WriteErrorReportedFixed ==
    \A r \in Runs : r.outcome = "WriteError" => r.ret = FALSE

\* C9 as amended: when a fix was decided and the rewrite fails,
\* fix_file_header returns True, the value of a valid file: main counts the
\* file as fixed no more than a valid one; the file holds its old content or,
\* when the failure came after the open, nothing.
C9_WriteErrorReportedValid ==
    /\ \A r \in Runs :
           r.outcome = "WriteError" =>
               /\ r.needs_fix
               /\ r.ret = TRUE
               /\ r.after \in {r.before, <<>>}
    /\ ~all_valid => \E r \in Runs : r.outcome = "Fixed"
    /\ (pc = "done" /\ \A r \in Runs : r.outcome # "Fixed") => exit_code = 0

\* main returned 0 although a rewrite failed
C9_Witness ==
    /\ pc = "done"
    /\ exit_code = 0
    /\ \E r \in Runs : r.outcome = "WriteError" /\ r.needs_fix

\* C10: when two runs over one file both end without a read or write error,
\* the second run reports Unchanged and leaves the file as it was.
C10_ConvergesInOneRun ==
    \A i \in DOMAIN trace : \A j \in DOMAIN trace :
        (/\ j = i + 1
         /\ trace[i].path = trace[j].path
         /\ Completed(trace[i])
         /\ Completed(trace[j])) =>
            /\ trace[j].outcome = "Unchanged"
            /\ trace[j].after = trace[j].before

====
